---- MODULE Spec2Model ----
(***************************************************************************)
(* JsonStream (src/index.ts): newline-delimited JSON framing over a pair   *)
(* of stream handles.                                                      *)
(*                                                                         *)
(* Text is a sequence of one-character strings.  A JavaScript value is a   *)
(* record whose single field names its type: [obj |-> members] with        *)
(* members a sequence of <<key, value>> pairs in property order,           *)
(* [str |-> text], [num |-> n], [cyclic |-> TRUE] for an object graph      *)
(* that refers to itself.  An Error object is [message |-> string].        *)
(*                                                                         *)
(* An emitted event is a record [kind, ...arguments of emit].  The model   *)
(* records every emit call; an observer is taken to be registered for      *)
(* each event kind, so that emit returns normally.                         *)
(***************************************************************************)
EXTENDS Integers, Sequences, FiniteSets, TLC

\* ------------------------------------------------------------------ bounds
\* largest chunk one 'data' notification delivers
MaxChunk == 3
\* largest configured maxLineLength besides the default
MaxLineCap == 3
\* longest text of the exhaustively enumerated input streams
MaxStreamLen == 3
\* most notifications and calls other than 'data' (end, error, write) in a run
MaxOps == 1

\* ------------------------------------------------------- class field values
\* EOL = '\n'
EOL == <<"\n">>
\* maxLineLength = 1024 * 1024
DefaultMaxLineLength == 1024 * 1024
\* \s of recordRegExp and of /\S/, restricted to the characters in use
Whitespace == {" ", "\t", "\r", "\n"}

\* ------------------------------------------------------------ string helpers
\* String.prototype.substring(start): start clamped to [0, length]
Substring(s, start) ==
    LET b == IF start < 0 THEN 0 ELSE IF start > Len(s) THEN Len(s) ELSE start
    IN  SubSeq(s, b + 1, Len(s))

\* does sep occur in s at (1-based) position i
OccursAt(s, sep, i) ==
    /\ i >= 1
    /\ i + Len(sep) - 1 <= Len(s)
    /\ SubSeq(s, i, i + Len(sep) - 1) = sep

\* String.prototype.indexOf(sep): 1-based position of the first occurrence, 0 if none
IndexOf(s, sep) ==
    IF \E i \in 1..Len(s) : OccursAt(s, sep, i)
    THEN CHOOSE i \in 1..Len(s) :
            /\ OccursAt(s, sep, i)
            /\ \A j \in 1..(i - 1) : ~OccursAt(s, sep, j)
    ELSE 0

\* String.prototype.split(sep) for a non-empty separator: N occurrences give N+1 pieces
RECURSIVE Split(_, _)
Split(s, sep) ==
    LET i == IndexOf(s, sep)
    IN  IF i = 0 THEN <<s>>
        ELSE <<SubSeq(s, 1, i - 1)>> \o Split(SubSeq(s, i + Len(sep), Len(s)), sep)

\* record.match(recordRegExp), recordRegExp = /^\s*\{/
RECURSIVE MatchRecordRegExp(_)
MatchRecordRegExp(record) ==
    IF record = <<>> THEN FALSE
    ELSE IF Head(record) = "{" THEN TRUE
    ELSE IF Head(record) \in Whitespace THEN MatchRecordRegExp(Tail(record))
    ELSE FALSE

\* record.match(/\S/)
MatchNonSpace(record) == \E i \in 1..Len(record) : record[i] \notin Whitespace

\* ------------------------------------------------------------------- JSON
\* JSON.parse and JSON.stringify on the subset of JSON made of objects, arrays,
\* strings (escapes \" \\ \/ \n \t \r) and unsigned integers.
JsonWs == {" ", "\t", "\n", "\r"}
Digits == {"0", "1", "2", "3", "4", "5", "6", "7", "8", "9"}
DigitVal ==
    ("0" :> 0) @@ ("1" :> 1) @@ ("2" :> 2) @@ ("3" :> 3) @@ ("4" :> 4) @@
    ("5" :> 5) @@ ("6" :> 6) @@ ("7" :> 7) @@ ("8" :> 8) @@ ("9" :> 9)
DigitChar == <<"0", "1", "2", "3", "4", "5", "6", "7", "8", "9">>
Escapes ==
    ("\"" :> "\"") @@ ("\\" :> "\\") @@ ("/" :> "/") @@
    ("n" :> "\n") @@ ("t" :> "\t") @@ ("r" :> "\r")
Fail == [ok |-> FALSE]

\* position of the first character at or after i that is not JSON whitespace
RECURSIVE SkipWs(_, _)
SkipWs(s, i) ==
    IF i <= Len(s) /\ s[i] \in JsonWs THEN SkipWs(s, i + 1) ELSE i

\* characters of a string literal after its opening quote
RECURSIVE ParseString(_, _, _)
ParseString(s, i, acc) ==
    IF i > Len(s) THEN Fail
    ELSE IF s[i] = "\"" THEN [ok |-> TRUE, v |-> [str |-> acc], i |-> i + 1]
    ELSE IF s[i] = "\\"
         THEN IF i + 1 <= Len(s) /\ s[i + 1] \in DOMAIN Escapes
              THEN ParseString(s, i + 2, Append(acc, Escapes[s[i + 1]]))
              ELSE Fail
    ELSE IF s[i] \in {"\n", "\t", "\r"} THEN Fail
    ELSE ParseString(s, i + 1, Append(acc, s[i]))

\* digits of an integer, n the value read so far
RECURSIVE ParseDigits(_, _, _)
ParseDigits(s, i, n) ==
    IF i <= Len(s) /\ s[i] \in Digits
    THEN ParseDigits(s, i + 1, 10 * n + DigitVal[s[i]])
    ELSE [ok |-> TRUE, v |-> [num |-> n], i |-> i]

\* 0 | [1-9][0-9]*
ParseNumber(s, i) ==
    IF s[i] = "0" THEN [ok |-> TRUE, v |-> [num |-> 0], i |-> i + 1]
    ELSE ParseDigits(s, i, 0)

\* an object keeps one property per key: a repeated key overwrites the value in place
SetMember(members, key, val) ==
    IF \E k \in 1..Len(members) : members[k][1] = key
    THEN [k \in 1..Len(members) |->
            IF members[k][1] = key THEN <<key, val>> ELSE members[k]]
    ELSE Append(members, <<key, val>>)

RECURSIVE ParseValue(_, _)
RECURSIVE ParseMembers(_, _, _)
RECURSIVE ParseElements(_, _, _)

\* after a member's value v: "}" closes the object, "," starts the next member
AfterMember(s, key, v, acc) ==
    IF ~v.ok \/ SkipWs(s, v.i) > Len(s) THEN Fail
    ELSE IF s[SkipWs(s, v.i)] = "}"
         THEN [ok |-> TRUE, v |-> [obj |-> SetMember(acc, key, v.v)],
               i |-> SkipWs(s, v.i) + 1]
    ELSE IF s[SkipWs(s, v.i)] = ","
         THEN ParseMembers(s, SkipWs(s, SkipWs(s, v.i) + 1), SetMember(acc, key, v.v))
    ELSE Fail

\* after a member's key k: ":" and the member's value
AfterKey(s, k, acc) ==
    IF ~k.ok \/ SkipWs(s, k.i) > Len(s) THEN Fail
    ELSE IF s[SkipWs(s, k.i)] # ":" THEN Fail
    ELSE AfterMember(s, k.v.str, ParseValue(s, SkipWs(s, SkipWs(s, k.i) + 1)), acc)

\* members of an object, i at the first non-blank character of a member
ParseMembers(s, i, acc) ==
    IF i > Len(s) \/ s[i] # "\"" THEN Fail
    ELSE AfterKey(s, ParseString(s, i + 1, <<>>), acc)

\* after an element v: "]" closes the array, "," starts the next element
AfterElement(s, v, acc) ==
    IF ~v.ok \/ SkipWs(s, v.i) > Len(s) THEN Fail
    ELSE IF s[SkipWs(s, v.i)] = "]"
         THEN [ok |-> TRUE, v |-> [arr |-> Append(acc, v.v)], i |-> SkipWs(s, v.i) + 1]
    ELSE IF s[SkipWs(s, v.i)] = ","
         THEN ParseElements(s, SkipWs(s, SkipWs(s, v.i) + 1), Append(acc, v.v))
    ELSE Fail

\* elements of an array, i at the first non-blank character of an element
ParseElements(s, i, acc) == AfterElement(s, ParseValue(s, i), acc)

\* one JSON value starting at i (i at a non-blank character)
ParseValue(s, i) ==
    IF i > Len(s) THEN Fail
    ELSE IF s[i] = "{"
         THEN IF SkipWs(s, i + 1) <= Len(s) /\ s[SkipWs(s, i + 1)] = "}"
              THEN [ok |-> TRUE, v |-> [obj |-> <<>>], i |-> SkipWs(s, i + 1) + 1]
              ELSE ParseMembers(s, SkipWs(s, i + 1), <<>>)
    ELSE IF s[i] = "["
         THEN IF SkipWs(s, i + 1) <= Len(s) /\ s[SkipWs(s, i + 1)] = "]"
              THEN [ok |-> TRUE, v |-> [arr |-> <<>>], i |-> SkipWs(s, i + 1) + 1]
              ELSE ParseElements(s, SkipWs(s, i + 1), <<>>)
    ELSE IF s[i] = "\"" THEN ParseString(s, i + 1, <<>>)
    ELSE IF s[i] \in Digits THEN ParseNumber(s, i)
    ELSE Fail

\* JSON.parse(text): [threw |-> FALSE, value] or [threw |-> TRUE, message]
JSONParse(text) ==
    LET r == ParseValue(text, SkipWs(text, 1))
    IN  IF r.ok /\ SkipWs(text, r.i) = Len(text) + 1
        THEN [threw |-> FALSE, value |-> r.v]
        ELSE [threw |-> TRUE, message |-> "Unexpected token"]

\* a string literal: quotes, with quote, backslash and control characters escaped
RECURSIVE Quote(_)
Quote(t) ==
    IF t = <<>> THEN <<>>
    ELSE (CASE Head(t) = "\"" -> <<"\\", "\"">>
            [] Head(t) = "\\" -> <<"\\", "\\">>
            [] Head(t) = "\n" -> <<"\\", "n">>
            [] Head(t) = "\t" -> <<"\\", "t">>
            [] Head(t) = "\r" -> <<"\\", "r">>
            [] OTHER -> <<Head(t)>>) \o Quote(Tail(t))

\* decimal digits of a natural number
RECURSIVE NumberText(_)
NumberText(n) ==
    IF n < 10 THEN <<DigitChar[n + 1]>>
    ELSE NumberText(n \div 10) \o <<DigitChar[(n % 10) + 1]>>

\* text of a serializable value
RECURSIVE ValueText(_)
RECURSIVE MembersText(_)
RECURSIVE ElementsText(_)
MembersText(members) ==
    IF members = <<>> THEN <<>>
    ELSE <<"\"">> \o Quote(Head(members)[1]) \o <<"\"", ":">>
         \o ValueText(Head(members)[2])
         \o (IF Len(members) > 1 THEN <<",">> ELSE <<>>)
         \o MembersText(Tail(members))
ElementsText(elements) ==
    IF elements = <<>> THEN <<>>
    ELSE ValueText(Head(elements))
         \o (IF Len(elements) > 1 THEN <<",">> ELSE <<>>)
         \o ElementsText(Tail(elements))
ValueText(v) ==
    IF "obj" \in DOMAIN v THEN <<"{">> \o MembersText(v.obj) \o <<"}">>
    ELSE IF "arr" \in DOMAIN v THEN <<"[">> \o ElementsText(v.arr) \o <<"]">>
    ELSE IF "str" \in DOMAIN v THEN <<"\"">> \o Quote(v.str) \o <<"\"">>
    ELSE NumberText(v.num)

\* JSON.stringify(value): throws a TypeError on a cyclic structure
JSONStringify(v) ==
    IF "cyclic" \in DOMAIN v
    THEN [threw |-> TRUE, message |-> "Converting circular structure to JSON"]
    ELSE [threw |-> FALSE, data |-> ValueText(v)]

\* deep equality of two values: same type, same keys, equal members, any key order
RECURSIVE DeepEqual(_, _)
DeepEqual(a, b) ==
    IF "obj" \in DOMAIN a /\ "obj" \in DOMAIN b
    THEN /\ Len(a.obj) = Len(b.obj)
         /\ \A k \in 1..Len(a.obj) : \E m \in 1..Len(b.obj) :
               /\ a.obj[k][1] = b.obj[m][1]
               /\ DeepEqual(a.obj[k][2], b.obj[m][2])
    ELSE IF "arr" \in DOMAIN a /\ "arr" \in DOMAIN b
    THEN /\ Len(a.arr) = Len(b.arr)
         /\ \A k \in 1..Len(a.arr) : DeepEqual(a.arr[k], b.arr[k])
    ELSE a = b


\* ------------------------------------------------------------------ state
VARIABLES
    buffer,             \* this.buffer, the pending partial line ('' when undefined)
    maxLineLength,      \* this.maxLineLength
    preserveWhitespace, \* this.preserveWhitespace
    separate,           \* this.streamOut != this.streamIn
    perf,               \* a performance recorder is attached (this.perf)
    timers,             \* recorder: open spans per timer name
    counts,             \* recorder: counter values
    stream,             \* text the input handle has to deliver
    pos,                \* number of characters of stream delivered so far
    last,               \* the latest notification or call and its arguments
    emitted,            \* events emitted by the latest notification or call
    written,            \* calls of streamOut.write made by the latest call
    events,             \* every classified-line event emitted so far
    ops                 \* notifications and calls other than 'data' so far

vars == <<buffer, maxLineLength, preserveWhitespace, separate, perf, timers,
          counts, stream, pos, last, emitted, written, events, ops>>

TimerNames == {"json_stream_parse", "json_stream_compose"}
CounterNames == {"json_stream_msgs_read", "json_stream_bytes_read",
                 "json_stream_msgs_written", "json_stream_bytes_written",
                 "json_stream_write_buffer"}

\* the value null and JavaScript truthiness of a value
Null == [null |-> TRUE]
Truthy(v) ==
    /\ "null" \notin DOMAIN v
    /\ ("num" \in DOMAIN v => v.num # 0)
    /\ ("str" \in DOMAIN v => v.str # <<>>)

\* perf.begin(name), perf.end(name), perf.count(name, amount) on a recorder state
PerfBegin(r, name) == [r EXCEPT !.timers[name] = @ + 1]
PerfEnd(r, name) == [r EXCEPT !.timers[name] = @ - 1]
PerfCount(r, name, amount) == [r EXCEPT !.counts[name] = @ + amount]

\* ------------------------------------------------------- the 'data' handler
\* Incoming with the pending buffer forgotten instead of prepended
IncomingNoPrepend(buf, data) == data

\* lines 46-50: prepend the pending buffer and keep the last maxLineLength characters
Incoming(buf, data) ==
    IF buf # <<>>
    THEN LET joined == buf \o data
         IN  IF Len(joined) > maxLineLength
             THEN Substring(joined, Len(joined) - maxLineLength)
             ELSE joined
    ELSE data

\* line 56: data does not end on EOL
PartialBlock(data) == Substring(data, Len(data) - Len(EOL)) # EOL

\* lines 52-58: the records of the pass, the partial block popped off
Records(data) ==
    LET records == Split(data, EOL)
    IN  IF PartialBlock(data) THEN SubSeq(records, 1, Len(records) - 1) ELSE records

\* NewBuffer without the clearing of the buffer once it has been prepended
NewBufferNotCleared(buf, data) ==
    LET incoming == Incoming(buf, data)
        records  == Split(incoming, EOL)
    IN  IF PartialBlock(incoming) THEN records[Len(records)] ELSE buf

\* lines 46-58: this.buffer after the pass
NewBuffer(buf, data) ==
    LET incoming == Incoming(buf, data)
        records  == Split(incoming, EOL)
    IN  IF PartialBlock(incoming) THEN records[Len(records)]
        ELSE IF buf # <<>> THEN <<>> ELSE buf

\* JsonBranch without the reset of json to null before the decode attempt
JsonBranchNoReset(record, acc) ==
    LET parsed == JSONParse(record)
        json   == IF parsed.threw THEN acc.json ELSE parsed.value
        err    == [kind |-> "error",
                   err |-> [message |-> "JSON Parse Error: " \o parsed.message],
                   record |-> record]
        out1   == IF parsed.threw THEN Append(acc.emitted, err) ELSE acc.emitted
        out2   == IF Truthy(json)
                  THEN Append(out1, [kind |-> "json", json |-> json])
                  ELSE out1
    IN  [json |-> json, emitted |-> out2, rec |-> acc.rec]

\* JsonBranch with the read counters advanced only when the decode succeeded
JsonBranchCountsOnSuccess(record, acc) ==
    LET parsed == JSONParse(record)
        err    == [kind |-> "error",
                   err |-> [message |-> "JSON Parse Error: " \o parsed.message],
                   record |-> record]
    IN  IF parsed.threw
        THEN [json |-> Null, emitted |-> Append(acc.emitted, err), rec |-> acc.rec]
        ELSE [json |-> parsed.value,
              emitted |-> Append(acc.emitted, [kind |-> "json", json |-> parsed.value]),
              rec |-> IF perf
                      THEN PerfCount(PerfCount(acc.rec, "json_stream_msgs_read", 1),
                                     "json_stream_bytes_read", Len(record) + Len(EOL))
                      ELSE acc.rec]

\* lines 68-81: a record that matches recordRegExp
JsonBranch(record, acc) ==
    LET parsed == JSONParse(record)
        json   == IF parsed.threw THEN Null ELSE parsed.value
        err    == [kind |-> "error",
                   err |-> [message |-> "JSON Parse Error: " \o parsed.message],
                   record |-> record]
        out1   == IF parsed.threw THEN Append(acc.emitted, err) ELSE acc.emitted
        rec1   == IF perf THEN PerfBegin(acc.rec, "json_stream_parse") ELSE acc.rec
        rec2   == IF perf
                  THEN PerfCount(
                         PerfCount(PerfEnd(rec1, "json_stream_parse"),
                                   "json_stream_msgs_read", 1),
                         "json_stream_bytes_read", Len(record) + Len(EOL))
                  ELSE rec1
        out2   == IF Truthy(json)
                  THEN Append(out1, [kind |-> "json", json |-> json])
                  ELSE out1
    IN  [json |-> json, emitted |-> out2, rec |-> rec2]

\* TextBranch with the delimiter re-appended to every record
TextBranchAlwaysEOL(record, idx, len, acc) ==
    IF preserveWhitespace \/ MatchNonSpace(record)
    THEN [acc EXCEPT !.emitted = Append(@, [kind |-> "text", text |-> record \o EOL])]
    ELSE acc

\* lines 83-88: a record that does not match recordRegExp
TextBranch(record, idx, len, acc) ==
    IF preserveWhitespace \/ MatchNonSpace(record)
    THEN LET text == record \o (IF idx < len - 1 THEN EOL ELSE <<>>)
         IN  IF Len(text) # 0
             THEN [acc EXCEPT !.emitted = Append(@, [kind |-> "text", text |-> text])]
             ELSE acc
    ELSE acc

\* lines 64-88: one iteration of the loop, idx counted from 0
LoopBody(records, idx, acc) ==
    LET record == records[idx + 1]
    IN  IF MatchRecordRegExp(record)
        THEN JsonBranch(record, acc)
        ELSE TextBranch(record, idx, Len(records), acc)

\* RecordLoop with a parse failure ending the loop (the catch block leaving it)
RECURSIVE RecordLoopStopsOnError(_, _, _)
RecordLoopStopsOnError(records, idx, acc) ==
    IF /\ idx < Len(records)
       /\ acc.emitted = <<>> \/ acc.emitted[Len(acc.emitted)].kind # "error"
    THEN RecordLoopStopsOnError(records, idx + 1, LoopBody(records, idx, acc))
    ELSE acc

\* lines 63-89: for (idx = 0; idx < len; idx++)
RECURSIVE RecordLoop(_, _, _)
RecordLoop(records, idx, acc) ==
    IF idx < Len(records)
    THEN RecordLoop(records, idx + 1, LoopBody(records, idx, acc))
    ELSE acc

\* lines 45-91: the whole handler on one chunk: [buffer, emitted, rec]
DataHandler(buf, data, rec) ==
    LET incoming == Incoming(buf, data)
        done     == RecordLoop(Records(incoming), 0,
                               [json |-> Null, emitted |-> <<>>, rec |-> rec])
    IN  [buffer |-> NewBuffer(buf, data), emitted |-> done.emitted, rec |-> done.rec]


\* ------------------------------------------------------ error and end wiring
\* ErrorListeners without the identity comparison of the two handles
ErrorListenersBoth ==
    << [on |-> "in", prefix |-> "Error in input stream: "],
       [on |-> IF separate THEN "out" ELSE "in", prefix |-> "Error in output stream: "] >>

\* lines 94-108: the 'error' listeners init() registers, in registration order;
\* "on" is the handle listened to (streamOut is streamIn when not separate)
ErrorListeners ==
    IF separate
    THEN << [on |-> "in",  prefix |-> "Error in input stream: "],
            [on |-> "out", prefix |-> "Error in output stream: "] >>
    ELSE << [on |-> "in",  prefix |-> ""] >>

\* lines 96-107: what one registered listener emits for the handle's error
ErrorEvent(listener, err) ==
    IF separate
    THEN [kind |-> "error", msg |-> listener.prefix \o err.message]
    ELSE [kind |-> "error", err |-> err]

\* an 'error' notification of handle h runs every listener registered on h
RECURSIVE FireError(_, _, _)
FireError(listeners, h, err) ==
    IF listeners = <<>> THEN <<>>
    ELSE (IF Head(listeners).on = h
          THEN <<ErrorEvent(Head(listeners), err)>>
          ELSE <<>>) \o FireError(Tail(listeners), h, err)

\* EndEvents with the pending partial line flushed as text before 'end'
EndEventsFlush ==
    (IF buffer # <<>> THEN << [kind |-> "text", text |-> buffer] >> ELSE <<>>)
        \o << [kind |-> "end"] >>

\* lines 111-113: the 'end' listener
EndEvents == << [kind |-> "end"] >>

\* ------------------------------------------------------------------ write
\* WriteCall handing over the serialized text without the delimiter
WriteCallNoEOL(json, callback, result, rec) ==
    IF JSONStringify(json).threw
    THEN [threw |-> TRUE, calls |-> <<>>, rec |-> rec]
    ELSE [threw |-> FALSE,
          calls |-> << [data |-> JSONStringify(json).data, callback |-> callback] >>,
          ret   |-> result,
          rec   |-> rec]

\* WriteCall with the written counters advanced before the value is serialized
WriteCallCountsFirst(json, callback, result, rec) ==
    IF JSONStringify(json).threw
    THEN [threw |-> TRUE, calls |-> <<>>,
          rec |-> IF perf THEN PerfCount(rec, "json_stream_msgs_written", 1) ELSE rec]
    ELSE [threw |-> FALSE,
          calls |-> << [data |-> JSONStringify(json).data \o EOL, callback |-> callback] >>,
          ret   |-> result,
          rec   |-> rec]

\* lines 116-131: [threw, calls of streamOut.write, returned value, rec];
\* result is what the write primitive returns for the call
WriteCall(json, callback, result, rec) ==
    LET rec1 == IF perf THEN PerfBegin(rec, "json_stream_compose") ELSE rec
        str  == JSONStringify(json)
    IN  IF str.threw
        THEN [threw |-> TRUE, calls |-> <<>>, rec |-> rec1]
        ELSE LET rec2 == IF perf
                         THEN PerfCount(
                                PerfCount(PerfEnd(rec1, "json_stream_compose"),
                                          "json_stream_msgs_written", 1),
                                "json_stream_bytes_written", Len(str.data) + Len(EOL))
                         ELSE rec1
                 rec3 == IF ~result /\ perf
                         THEN PerfCount(rec2, "json_stream_write_buffer", 1)
                         ELSE rec2
             IN  [threw |-> FALSE,
                  calls |-> << [data |-> str.data \o EOL, callback |-> callback] >>,
                  ret   |-> result,
                  rec   |-> rec3]

\* ------------------------------------------------------------------ inputs
StreamChars == {"{", "}", " ", "a", "\n"}

\* every text of 1..MaxStreamLen characters over StreamChars
ShortTexts == UNION {[1..n -> StreamChars] : n \in 1..MaxStreamLen}

\* longer streams: JSON objects, malformed JSON, text, blank lines, arrays, scalars
Corpus == {
    <<"{","b","a","d","}","\n", "h","i","\n", "{","\"","a","\"",":","1","}","\n">>,
    <<"{","\"","a","\"",":","1","}","\n", "{","}">>,
    <<"h","i","\n", " "," ","\n", "\n", "w","o","\n">>,
    <<"[","1","]","\n", "1","\n", " ","{","}"," ","\n">>,
    <<"a","b","c","d","e","f","\n", "x","y","\n">>,
    <<"{","x","\n", "b","\n", "{","}","\n", "{","\n">>
}

Streams == ShortTexts \cup Corpus

\* streams of the runs that mix chunks with end, error and write:
\* {}\n{a\nb\n (an object, malformed JSON, text) and a\n \n{} (text, blank, partial)
OpStreams == {
    <<"{","}","\n", "{","a","\n", "b","\n">>,
    <<"a","\n", " ","\n", "{","}">>
}

\* values handed to write(): {}, {"a":1}, {"a":"x\ny","b":[{}]} and a cyclic object
Values == {
    [obj |-> <<>>],
    [obj |-> << <<<<"a">>, [num |-> 1]>> >>],
    [obj |-> << <<<<"a">>, [str |-> <<"x", "\n", "y">>]>>,
                <<<<"b">>, [arr |-> << [obj |-> <<>>] >>]>> >>],
    [cyclic |-> TRUE]
}

\* errors a handle reports
Errs == {[message |-> "EPIPE"], [message |-> "ECONNRESET"]}

Callbacks == {"undefined", "callback"}

MaxLineLengths == {DefaultMaxLineLength} \cup 1..MaxLineCap

NoRecorder ==
    [timers |-> [n \in TimerNames |-> 0], counts |-> [n \in CounterNames |-> 0]]

\* ------------------------------------------------------------------ actions
\* after new JsonStream(stream_in, stream_out), the assignment of the settings
\* and an optional setPerf(recorder)
Constructed(streams) ==
    /\ buffer = <<>>
    /\ maxLineLength \in MaxLineLengths
    /\ preserveWhitespace \in BOOLEAN
    /\ separate \in BOOLEAN
    /\ perf \in BOOLEAN
    /\ timers = NoRecorder.timers
    /\ counts = NoRecorder.counts
    /\ stream \in streams
    /\ pos = 0
    /\ last = [op |-> "init"]
    /\ emitted = <<>>
    /\ written = <<>>
    /\ events = <<>>
    /\ ops = 0

Init == Constructed(OpStreams)

\* streamIn 'data': the next k characters of the stream arrive as one chunk
Data(k) ==
    /\ pos + k <= Len(stream)
    /\ LET chunk == SubSeq(stream, pos + 1, pos + k)
           r     == DataHandler(buffer, chunk, [timers |-> timers, counts |-> counts])
       IN  /\ buffer' = r.buffer
           /\ timers' = r.rec.timers
           /\ counts' = r.rec.counts
           /\ emitted' = r.emitted
           /\ events' = events \o r.emitted
           /\ last' = [op |-> "data", chunk |-> chunk, pre |-> buffer]
    /\ pos' = pos + k
    /\ written' = <<>>
    /\ UNCHANGED <<maxLineLength, preserveWhitespace, separate, perf, stream, ops>>

\* streamIn 'end'
End ==
    /\ ops < MaxOps
    /\ emitted' = EndEvents
    /\ last' = [op |-> "end", pre |-> buffer]
    /\ written' = <<>>
    /\ ops' = ops + 1
    /\ UNCHANGED <<buffer, maxLineLength, preserveWhitespace, separate, perf, timers,
                   counts, stream, pos, events>>

\* StreamError with the listener also discarding the pending partial line
StreamErrorResets(h, err) ==
    /\ ops < MaxOps
    /\ h = "out" => separate
    /\ emitted' = FireError(ErrorListeners, h, err)
    /\ last' = [op |-> "error", handle |-> h, err |-> err]
    /\ written' = <<>>
    /\ ops' = ops + 1
    /\ buffer' = <<>>
    /\ UNCHANGED <<maxLineLength, preserveWhitespace, separate, perf, timers,
                   counts, stream, pos, events>>

\* 'error' of a handle: "in" is streamIn, "out" a distinct streamOut
StreamError(h, err) ==
    /\ ops < MaxOps
    /\ h = "out" => separate
    /\ emitted' = FireError(ErrorListeners, h, err)
    /\ last' = [op |-> "error", handle |-> h, err |-> err]
    /\ written' = <<>>
    /\ ops' = ops + 1
    /\ UNCHANGED <<buffer, maxLineLength, preserveWhitespace, separate, perf, timers,
                   counts, stream, pos, events>>

\* write(json, callback), the write primitive answering result; on a loopback
\* handle (echo) the text handed to the handle is what its input side delivers next
WriteOn(json, callback, result, echo) ==
    /\ ops < MaxOps
    /\ LET w == WriteCall(json, callback, result, [timers |-> timers, counts |-> counts])
       IN  /\ timers' = w.rec.timers
           /\ counts' = w.rec.counts
           /\ written' = w.calls
           /\ stream' = IF echo /\ ~w.threw THEN stream \o w.calls[1].data ELSE stream
           /\ last' = IF w.threw
                      THEN [op |-> "write", json |-> json, callback |-> callback,
                            threw |-> TRUE]
                      ELSE [op |-> "write", json |-> json, callback |-> callback,
                            threw |-> FALSE, result |-> result, ret |-> w.ret]
    /\ emitted' = <<>>
    /\ ops' = ops + 1
    /\ UNCHANGED <<buffer, maxLineLength, preserveWhitespace, separate, perf,
                   pos, events>>

\* write() on an output handle whose text goes to a peer
Write(json, callback, result) == WriteOn(json, callback, result, FALSE)

\* write() on a loopback handle
WriteLoopback(json, callback, result) == WriteOn(json, callback, result, TRUE)

Next ==
    \/ \E k \in 1..MaxChunk : Data(k)
    \/ End
    \/ \E h \in {"in", "out"}, err \in Errs : StreamError(h, err)
    \/ \E json \in Values, callback \in Callbacks, result \in BOOLEAN :
          Write(json, callback, result)

Spec == Init /\ [][Next]_vars

\* the 'data' handler alone, over every enumerated input stream
InitRead == Constructed(Streams)
NextRead == \E k \in 1..MaxChunk : Data(k)
SpecRead == InitRead /\ [][NextRead]_vars

\* a reader and writer on one loopback handle: nothing arrives but what was written
InitLoopback == Constructed({<<>>}) /\ ~separate
NextLoopback ==
    \/ \E json \in Values, callback \in Callbacks, result \in BOOLEAN :
          WriteLoopback(json, callback, result)
    \/ \E k \in 1..MaxChunk : Data(k)
SpecLoopback == InitLoopback /\ [][NextLoopback]_vars


\* ================================================================== claims
\* text delivered to the 'data' handler so far
Fed == SubSeq(stream, 1, pos)

\* the latest step was a chunk arrival
IsData == last.op = "data"

\* does text contain the delimiter
HasEOL(text) == IndexOf(text, EOL) # 0

\* C2: in every reachable state the Pending Buffer is no longer than maxLineLength.
C2_BufferBounded == Len(buffer) <= maxLineLength

\* C3: a chunk without delimiter that is longer than maxLineLength leaves the
\* Pending Buffer holding exactly the last maxLineLength characters of the chunk
\* and emits no event.
C3_OverflowTruncation ==
    (IsData /\ ~HasEOL(last.chunk) /\ Len(last.chunk) > maxLineLength)
        => /\ buffer = Substring(last.chunk, Len(last.chunk) - maxLineLength)
           /\ emitted = <<>>


\* the events of feeding text as one single chunk to a fresh reader
SingleChunkEvents(text) == DataHandler(<<>>, text, NoRecorder).emitted

\* C1: once the text fed so far is delimiter-terminated, the classified-line
\* events emitted over all the chunks are those of feeding that text as a single
\* chunk.  Stated for the default settings (no truncation of any text of the
\* model, blank lines skipped).
C1_ChunkingIrrelevant ==
    (/\ maxLineLength = DefaultMaxLineLength
     /\ ~preserveWhitespace
     /\ pos > 0
     /\ ~PartialBlock(Fed))
        => events = SingleChunkEvents(Fed)

\* the records classified by the latest chunk arrival
PassRecords == Records(Incoming(last.pre, last.chunk))

\* event e is the event of the complete line: its decoded value, the line as
\* text (with or without the delimiter), or a parse error naming the line
OwnEvent(e, line) ==
    IF MatchRecordRegExp(line)
    THEN IF JSONParse(line).threw
         THEN /\ e.kind = "error"
              /\ DOMAIN e = {"kind", "err", "record"}
              /\ e.record = line
         ELSE e = [kind |-> "json", json |-> JSONParse(line).value]
    ELSE /\ e.kind = "text"
         /\ e.text \in {line, line \o EOL}

\* C4: in every chunk arrival the events are, in the order of the lines, one
\* event per line that has one: a line that passes the pre-check and fails to
\* decode gives exactly one error event carrying that line, and every other line
\* of the pass still gives its own event (none for a blank line that is skipped).
C4_MalformedIsolation ==
    IsData =>
        LET R == PassRecords
            HasEvent(i) ==
                \/ MatchRecordRegExp(R[i])
                \/ /\ preserveWhitespace \/ MatchNonSpace(R[i])
                   /\ R[i] # <<>> \/ i < Len(R)
            idx == SelectSeq([i \in 1..Len(R) |-> i], HasEvent)
        IN  /\ Len(emitted) = Len(idx)
            /\ \A k \in 1..Len(idx) : OwnEvent(emitted[k], R[idx[k]])

\* C4 witness: a parse error was emitted, a later line gave its event, and the
\* latest chunk emitted again.
C4_Witness ==
    /\ IsData
    /\ emitted # <<>>
    /\ \E k \in 1..(Len(events) - Len(emitted) - 1) : events[k].kind = "error"

\* first complete line of a text that contains the delimiter
FirstLine(text) == SubSeq(text, 1, IndexOf(text, EOL) - 1)

\* the segment after the last delimiter of a text
TrailingSegment(text) == Split(text, EOL)[Len(Split(text, EOL))]

\* C5: a chunk that does not end with the delimiter leaves its trailing partial
\* segment in the Pending Buffer (appended to what was pending when the chunk has
\* no delimiter); once a later chunk supplies the delimiter, the first event of
\* that pass is the event of the complete line, retained tail plus new data.
\* Stated for lines no longer than maxLineLength.
C5_PartialTailRetention ==
    IsData =>
        LET joined == last.pre \o last.chunk
        IN  /\ (PartialBlock(joined) /\ Len(TrailingSegment(joined)) <= maxLineLength)
                => buffer = TrailingSegment(joined)
            /\ (/\ last.pre # <<>>
                /\ HasEOL(joined)
                /\ Len(FirstLine(joined)) <= maxLineLength
                /\ MatchRecordRegExp(FirstLine(joined)) \/ MatchNonSpace(FirstLine(joined)))
                => /\ emitted # <<>>
                   /\ OwnEvent(emitted[1], FirstLine(joined))

\* C6: a chunk arrival emits one json event, with the decoded value, per line
\* that passes the pre-check and decodes, and one text event, the line with the
\* delimiter, per line that fails the pre-check and has non-whitespace content
\* or, with preserveWhitespace, is blank; it emits no other json or text event.
C6_Classification ==
    IsData =>
        LET R == PassRecords
            IsJson(r) == MatchRecordRegExp(r) /\ ~JSONParse(r).threw
            IsText(r) == ~MatchRecordRegExp(r) /\ (preserveWhitespace \/ MatchNonSpace(r))
            JsonEvent(e) == e.kind = "json"
            TextEvent(e) == e.kind = "text"
            jsons == SelectSeq(R, IsJson)
            texts == SelectSeq(R, IsText)
        IN  /\ SelectSeq(emitted, JsonEvent) =
                  [k \in 1..Len(jsons) |-> [kind |-> "json", json |-> JSONParse(jsons[k]).value]]
            /\ SelectSeq(emitted, TextEvent) =
                  [k \in 1..Len(texts) |-> [kind |-> "text", text |-> texts[k] \o EOL]]


\* C8: an end-of-input notification emits exactly one end event and nothing
\* else: no json, text or error event, and the Pending Buffer is left as it was.
C8_EndOnly ==
    [][(last'.op = "end" /\ ops' = ops + 1)
          => /\ emitted' = << [kind |-> "end"] >>
             /\ events' = events
             /\ buffer' = buffer]_vars

\* C8 witness: the input ended while a partial line was pending.
C8_Witness ==
    /\ last.op = "end"
    /\ last.pre # <<>>
    /\ buffer = last.pre
    /\ emitted = << [kind |-> "end"] >>

\* C9: a native error notification of a handle emits exactly one error event:
\* the error object itself when input and output are the same handle, the
\* message prefixed with its origin when they differ.
C9_ErrorNormalized ==
    last.op = "error" =>
        /\ Len(emitted) = 1
        /\ ~separate => emitted[1] = [kind |-> "error", err |-> last.err]
        /\ (separate /\ last.handle = "in") =>
              emitted[1] = [kind |-> "error",
                            msg |-> "Error in input stream: " \o last.err.message]
        /\ (separate /\ last.handle = "out") =>
              emitted[1] = [kind |-> "error",
                            msg |-> "Error in output stream: " \o last.err.message]

\* C9 witness: the single bidirectional handle reported an error.
C9_Witness ==
    /\ last.op = "error"
    /\ ~separate
    /\ emitted = << [kind |-> "error", err |-> [message |-> "EPIPE"]] >>

\* C10: write(value) with a serializable value calls the write primitive exactly
\* once, with the serialized text followed by the delimiter, and returns what the
\* primitive returned.
C10_WriteFraming ==
    (last.op = "write" /\ ~last.threw) =>
        /\ written = << [data |-> JSONStringify(last.json).data \o EOL,
                         callback |-> last.callback] >>
        /\ last.ret = last.result

\* C10 witness: write({"a":1}) under backpressure.
C10_Witness ==
    /\ last.op = "write"
    /\ ~last.threw
    /\ last.json = [obj |-> << <<<<"a">>, [num |-> 1]>> >>]
    /\ Len(written) = 1
    /\ written[1].data = <<"{", "\"", "a", "\"", ":", "1", "}", "\n">>
    /\ last.ret = FALSE


\* the values of the model that JSON.stringify serializes (all of them objects)
Serializable == {v \in Values : ~JSONStringify(v).threw}

\* the reader was fed exactly the text one write(v) handed to the loopback handle
FedBack(v) ==
    /\ stream = JSONStringify(v).data \o EOL
    /\ pos = Len(stream)

\* the reader emitted one json event with a value deep-equal to v, nothing else
OneJsonEvent(v) ==
    /\ Len(events) = 1
    /\ events[1].kind = "json"
    /\ DeepEqual(events[1].json, v)

C11_SerializationFailure ==
    [][(last'.op = "write" /\ ops' = ops + 1 /\ JSONStringify(last'.json).threw)
          => /\ last'.threw
             /\ written' = <<>>
             /\ emitted' = <<>>
             /\ counts'["json_stream_msgs_written"] = counts["json_stream_msgs_written"]
             /\ counts'["json_stream_bytes_written"] = counts["json_stream_bytes_written"]
             /\ buffer' = buffer]_vars

\* C11 witness: write of a cyclic value failed with a recorder attached and a
\* partial line pending.
C11_Witness ==
    /\ last.op = "write"
    /\ last.json = [cyclic |-> TRUE]
    /\ last.threw
    /\ perf
    /\ buffer # <<>>
    /\ written = <<>>
    /\ emitted = <<>>
    /\ counts["json_stream_msgs_written"] = 0


\* the text after the last delimiter of a text (the whole text when it has none)
RECURSIVE AfterLastEOL(_)
AfterLastEOL(text) ==
    IF HasEOL(text)
    THEN AfterLastEOL(SubSeq(text, IndexOf(text, EOL) + Len(EOL), Len(text)))
    ELSE text

\* step 2 of the chunk-arrival algorithm: a non-empty Pending Buffer is prepended
\* and the result cut down to its last maxLineLength characters
Step2(pending, chunk) ==
    IF pending # <<>> /\ Len(pending \o chunk) > maxLineLength
    THEN SubSeq(pending \o chunk, Len(pending \o chunk) - maxLineLength + 1,
                Len(pending \o chunk))
    ELSE pending \o chunk

\* the chunks the input handle may deliver next
NextChunks ==
    {SubSeq(stream, pos + 1, pos + k) :
        k \in {j \in 1..MaxChunk : pos + j <= Len(stream)}}

\* for each chunk that may be delivered now: the text its pass would split into
\* the lines to classify and the segment to retain
Reaction == [c \in NextChunks |-> Incoming(buffer, c)]

\* e is a parse-error event
IsParseError(e) == e.kind = "error" /\ "record" \in DOMAIN e

\* C12: an end-of-input notification, a transport error of either handle and a
\* write call leave the Pending Buffer, the settings and the recorder attachment
\* (all that the chunk-arrival handler reads) as they were, so that the pass of
\* every chunk delivered next works on the same text, Pending Buffer and chunk
\* joined and cut, as it would have before; a pass with a decode error leaves the
\* settings as they were and the Pending Buffer holding the text after the last
\* delimiter, as a pass without one does.
C12_NoFatalState ==
    [][/\ (ops' = ops + 1 /\ last'.op \in {"end", "error", "write"})
            => /\ buffer' = buffer
               /\ maxLineLength' = maxLineLength
               /\ preserveWhitespace' = preserveWhitespace
               /\ perf' = perf
               /\ Reaction' = Reaction
       /\ (pos' > pos /\ \E k \in 1..Len(emitted') : IsParseError(emitted'[k]))
            => /\ buffer' = AfterLastEOL(Step2(buffer, last'.chunk))
               /\ maxLineLength' = maxLineLength
               /\ preserveWhitespace' = preserveWhitespace]_vars

\* C12 witness: after a decode error, a handle reported an error while a partial
\* line was pending and more chunks were still to come.
C12_Witness ==
    /\ last.op = "error"
    /\ \E k \in 1..Len(events) : IsParseError(events[k])
    /\ buffer # <<>>
    /\ pos < Len(stream)


\* e is a text event
IsTextEvent(e) == e.kind = "text"

\* record takes the text branch and passes its emission test
TextLine(record) ==
    ~MatchRecordRegExp(record) /\ (preserveWhitespace \/ MatchNonSpace(record))

\* C13: in every chunk arrival the text events are, in line order, those of the
\* lines of the batch that take the text branch: the line followed by the
\* delimiter for every line that is not the last of the batch, the line alone for
\* the last of the batch (no event when that payload is empty).
C13_TextDelimiterRule ==
    IsData =>
        LET R == PassRecords
            Emits(i) == TextLine(R[i]) /\ (i < Len(R) \/ R[i] # <<>>)
            idx == SelectSeq([i \in 1..Len(R) |-> i], Emits)
        IN  SelectSeq(emitted, IsTextEvent) =
                [k \in 1..Len(idx) |->
                    [kind |-> "text",
                     text |-> R[idx[k]] \o (IF idx[k] < Len(R) THEN EOL ELSE <<>>)]]

\* C13 witness: abcdef was the last line of its batch (its delimiter arrived with
\* the start of the next line) and xy was not.
C13_Witness ==
    /\ IsData
    /\ events = << [kind |-> "text", text |-> <<"a", "b", "c", "d", "e", "f">>],
                   [kind |-> "text", text |-> <<"x", "y", "\n">>] >>


\* the completed lines of the latest chunk arrival: the segments that a
\* delimiter terminates in the text the pass splits
CompletedLines ==
    LET segments == Split(Incoming(last.pre, last.chunk), EOL)
    IN  SubSeq(segments, 1, Len(segments) - 1)

\* line fails the JSON pre-check
FailsPreCheck(line) == ~MatchRecordRegExp(line)

\* C14: with preserveWhitespace, a chunk arrival emits one text event per
\* completed line that fails the pre-check, empty and whitespace-only lines
\* included; without it, no text event is emitted for an empty or
\* whitespace-only line.
C14_WhitespacePreservation ==
    IsData =>
        /\ preserveWhitespace =>
              Len(SelectSeq(emitted, IsTextEvent)) =
                  Len(SelectSeq(CompletedLines, FailsPreCheck))
        /\ ~preserveWhitespace =>
              \A k \in 1..Len(emitted) :
                  IsTextEvent(emitted[k]) => MatchNonSpace(emitted[k].text)


\* e is a json event or an error event
IsJsonOrError(e) == e.kind \in {"json", "error"}

\* C15: in every chunk arrival the json and error events are, in line order,
\* exactly one per completed line that passes the pre-check: the json event of
\* its decoded value when it decodes, the error event carrying the line when it
\* does not; and the text events are no more than the lines that fail the
\* pre-check, so that no line has more than one event.
C15_ExclusiveClassification ==
    IsData =>
        LET passing == SelectSeq(CompletedLines, MatchRecordRegExp)
            own     == SelectSeq(emitted, IsJsonOrError)
        IN  /\ Len(own) = Len(passing)
            /\ \A k \in 1..Len(own) : OwnEvent(own[k], passing[k])
            /\ Len(SelectSeq(emitted, IsTextEvent))
                   <= Len(SelectSeq(CompletedLines, FailsPreCheck))

\* C15 witness: one pass decoded {} and then failed to decode { .
C15_Witness ==
    /\ IsData
    /\ Len(emitted) = 2
    /\ emitted[1] = [kind |-> "json", json |-> [obj |-> <<>>]]
    /\ IsParseError(emitted[2])
    /\ emitted[2].record = <<"{">>


\* the delimiter-terminated records of the text delivered so far
FedRecords == SubSeq(Split(Fed, EOL), 1, Len(Split(Fed, EOL)) - 1)

\* C16: no event emitted so far is the event of the complete text of a
\* delivered record that is longer than maxLineLength: no text event with the
\* record, no error event naming it, no json event with its decoded value.
C16_OversizedLost ==
    \A i \in 1..Len(FedRecords) :
        Len(FedRecords[i]) > maxLineLength =>
            \A k \in 1..Len(events) : ~OwnEvent(events[k], FedRecords[i])


\* C17: in every chunk arrival, each complete record that lies within the new
\* chunk (a delimiter-terminated segment of the chunk, the first one excepted
\* when it continues the carried-over Pending Buffer) and is no longer than
\* maxLineLength is a completed line of the pass, at its place counted from the
\* end of the chunk.
C17_TruncationScope ==
    IsData =>
        LET segments == Split(last.chunk, EOL)
            n        == Len(segments)
            first    == IF last.pre = <<>> THEN 1 ELSE 2
            shift    == Len(CompletedLines) - (n - 1)
        IN  \A i \in first..(n - 1) :
                Len(segments[i]) <= maxLineLength =>
                    /\ shift + i >= 1
                    /\ CompletedLines[shift + i] = segments[i]


\* sum over the lines of (line length + delimiter length)
RECURSIVE LineBytes(_)
LineBytes(lines) ==
    IF lines = <<>> THEN 0
    ELSE Len(Head(lines)) + Len(EOL) + LineBytes(Tail(lines))

\* C18: with a recorder attached, after every chunk arrival the messages-read
\* counter is the number of json and parse-error events emitted so far, and the
\* pass has added to the bytes-read counter the sum of (line length + delimiter
\* length) over its completed lines that pass the pre-check, the lines that give
\* those events; lines of the text branch add nothing to either counter.
C18_ReadCounters ==
    [][(perf' /\ pos' > pos)
          => /\ counts'["json_stream_msgs_read"] =
                    Len(SelectSeq(events', IsJsonOrError))
             /\ counts'["json_stream_msgs_read"] =
                    counts["json_stream_msgs_read"]
                        + Len(SelectSeq(CompletedLines', MatchRecordRegExp))
             /\ counts'["json_stream_bytes_read"] =
                    counts["json_stream_bytes_read"]
                        + LineBytes(SelectSeq(CompletedLines', MatchRecordRegExp))]_vars

\* C18 witness: {bad}, hi and {"a":1} were read with a recorder attached: two
\* messages and 6 + 8 bytes counted, nothing for the text line.
C18_Witness ==
    /\ perf
    /\ IsData
    /\ Len(events) = 3
    /\ IsParseError(events[1])
    /\ events[2] = [kind |-> "text", text |-> <<"h", "i", "\n">>]
    /\ events[3].kind = "json"
    /\ counts["json_stream_msgs_read"] = 2
    /\ counts["json_stream_bytes_read"] = 14


\* C19: the Pending Buffer never contains the delimiter, and after every chunk
\* arrival it is the text after the last delimiter of the previous Pending
\* Buffer followed by the chunk, cut as step 2 cuts it: empty when that text
\* ends on the delimiter.
C19_BufferContent ==
    /\ ~HasEOL(buffer)
    /\ IsData =>
          /\ buffer = AfterLastEOL(Step2(last.pre, last.chunk))
          /\ ~PartialBlock(Step2(last.pre, last.chunk)) => buffer = <<>>

\* C19 witness: a pending line and a chunk with a delimiter overflowed the
\* maximum, and the text after the delimiter was retained.
C19_Witness ==
    /\ IsData
    /\ last.pre # <<>>
    /\ HasEOL(last.chunk)
    /\ Len(last.pre \o last.chunk) > maxLineLength
    /\ buffer # <<>>


\* C20: after every notification and every call, finished or failed, the
\* recorder has no open timer span: every begin the data handler or write made
\* was matched by its end.
C20_TimerSpansPaired ==
    \A name \in TimerNames : timers[name] = 0


====
